---- MODULE Spec2Model ----
(***************************************************************************)
(* Model of the SOCKS5 proxy gateway worker.                               *)
(*                                                                         *)
(* Two workers are modelled: "v2" is src/src/index.js (CONNECT and plain   *)
(* HTTP), "v1" is src/unnamed/part_000 (CONNECT only).  One inbound        *)
(* request is followed from the credential gate through the proxy pick,    *)
(* the three-step SOCKS5 handshake and the start of the relay, together    *)
(* with the upstream proxy and the transport that delivers its bytes.      *)
(*                                                                         *)
(* Text is a sequence of code points, a packet a sequence of bytes.        *)
(***************************************************************************)
EXTENDS Integers, Sequences, FiniteSets, TLC

(***************************************************************************)
(* Bounds of the model.                                                    *)
(***************************************************************************)
\* how many application bytes the proxy sends after a successful connect reply
MaxApp == 1
\* the largest proxy list configured
MaxProxies == 1

(***************************************************************************)
(* JavaScript values.                                                      *)
(***************************************************************************)
\* the value `undefined`, kept apart from every text and every packet
Undefined == << -1 >>
\* NaN, as parseInt returns it
NaN == -1

\* x[i] of a Uint8Array (0-based); undefined past the end
At(x, i) == IF i < Len(x) THEN x[i + 1] ELSE -1

\* new Uint8Array([...]) keeps each element modulo 2^8
Uint8Array(xs) == [i \in 1..Len(xs) |-> xs[i] % 256]

\* TextEncoder.encode of one code point (UTF-8)
EncodeCodePoint(c) ==
  IF c < 128 THEN << c >>
  ELSE IF c < 2048 THEN << 192 + (c \div 64), 128 + (c % 64) >>
  ELSE << 224 + (c \div 4096), 128 + ((c \div 64) % 64), 128 + (c % 64) >>

\* TextEncoder.encode of a text
RECURSIVE Encode(_)
Encode(s) ==
  IF Len(s) = 0 THEN << >>
  ELSE IF Len(s) = 1 THEN EncodeCodePoint(s[1])
  ELSE LET half == Len(s) \div 2
       IN  Encode(SubSeq(s, 1, half)) \o Encode(SubSeq(s, half + 1, Len(s)))

(***************************************************************************)
(* The three packets of the handshake.                                     *)
(***************************************************************************)
GreetingPacket == Uint8Array(<< 5, 1, 2 >>)

AuthPacket(proxy) ==
  LET userBytes == Encode(proxy.user)
      passBytes == Encode(proxy.pass)
  IN  Uint8Array(<< 1, Len(userBytes) >> \o userBytes \o << Len(passBytes) >> \o passBytes)

\* (targetPort >> 8) & 0xff, targetPort & 0xff
\* variant: the two bytes in little-endian order
PortBytesLittleEndian(targetPort) == << targetPort % 256, (targetPort \div 256) % 256 >>
PortBytes(targetPort) == << (targetPort \div 256) % 256, targetPort % 256 >>

ConnectPacket(targetHost, targetPort) ==
  LET hostBytes == Encode(targetHost)
  IN  Uint8Array(<< 5, 1, 0, 3, Len(hostBytes) >> \o hostBytes \o PortBytes(targetPort))

(***************************************************************************)
(* The credential gate: atob, split and the lookup in USERS_JSON.          *)
(***************************************************************************)
\* "Basic "
BasicPrefix == << 66, 97, 115, 105, 99, 32 >>

\* authHeader.startsWith('Basic ')
StartsWith(s, prefix) ==
  /\ Len(s) >= Len(prefix)
  /\ SubSeq(s, 1, Len(prefix)) = prefix

\* authHeader.substring(6)
Substring(s, from) == SubSeq(s, from + 1, Len(s))

\* the value of one character of the base64 alphabet, -1 for any other
Base64Value(c) ==
  IF c >= 65 /\ c <= 90 THEN c - 65
  ELSE IF c >= 97 /\ c <= 122 THEN c - 71
  ELSE IF c >= 48 /\ c <= 57 THEN c + 4
  ELSE IF c = 43 THEN 62
  ELSE IF c = 47 THEN 63
  ELSE -1

IsAsciiWhitespace(c) == c \in {9, 10, 12, 13, 32}

\* the padding atob removes: one or two '=' at the end of a length-4k value
StripPadding(s) ==
  IF Len(s) % 4 = 0 /\ Len(s) >= 1 /\ s[Len(s)] = 61
  THEN IF Len(s) >= 2 /\ s[Len(s) - 1] = 61
       THEN SubSeq(s, 1, Len(s) - 2)
       ELSE SubSeq(s, 1, Len(s) - 1)
  ELSE s

\* the bytes of a run of 6-bit values; the bits left over are dropped
RECURSIVE DecodeGroups(_)
DecodeGroups(v) ==
  IF Len(v) >= 4 THEN
       << v[1] * 4 + (v[2] \div 16),
          (v[2] % 16) * 16 + (v[3] \div 4),
          (v[3] % 4) * 64 + v[4] >> \o DecodeGroups(SubSeq(v, 5, Len(v)))
  ELSE IF Len(v) = 3 THEN
       << v[1] * 4 + (v[2] \div 16), (v[2] % 16) * 16 + (v[3] \div 4) >>
  ELSE IF Len(v) = 2 THEN
       << v[1] * 4 + (v[2] \div 16) >>
  ELSE << >>

\* atob: the decoded text, or threw = TRUE (InvalidCharacterError)
Atob(encoded) ==
  LET data  == StripPadding(SelectSeq(encoded, LAMBDA c : ~IsAsciiWhitespace(c)))
      vals  == [i \in 1..Len(data) |-> Base64Value(data[i])]
  IN  IF Len(data) % 4 = 1 \/ \E i \in 1..Len(vals) : vals[i] = -1
      THEN [threw |-> TRUE, text |-> << >>]
      ELSE [threw |-> FALSE, text |-> DecodeGroups(vals)]

\* the position of the first ':' in s, 0 when there is none
RECURSIVE FirstColon(_, _)
FirstColon(s, i) ==
  IF i > Len(s) THEN 0 ELSE IF s[i] = 58 THEN i ELSE FirstColon(s, i + 1)

\* decodedCreds.split(':')
RECURSIVE Split(_)
Split(s) ==
  LET k == FirstColon(s, 1)
  IN  IF k = 0 THEN << s >>
      ELSE << SubSeq(s, 1, k - 1) >> \o Split(SubSeq(s, k + 1, Len(s)))

\* const [user, pass] = parts: a missing element is undefined
Destructure(parts, i) == IF i <= Len(parts) THEN parts[i] ELSE Undefined

\* variant: the lookup compares the user name only
UsersSomeUserOnly(users, user, pass) ==
  \E i \in 1..Len(users) : users[i].user = user
\* users.some(entry => entry.user === user && entry.pass === pass)
UsersSome(users, user, pass) ==
  \E i \in 1..Len(users) : users[i].user = user /\ users[i].pass = pass

\* the try block of the gate: TRUE when it ends without throwing
CredentialsAccepted(authHeader, usersJson) ==
  LET decodedCreds == Atob(Substring(authHeader, 6))
      parts        == Split(decodedCreds.text)
      user         == Destructure(parts, 1)
      pass         == Destructure(parts, 2)
  IN  /\ ~decodedCreds.threw
      /\ usersJson.kind = "array"
      /\ UsersSome(usersJson.items, user, pass)

(***************************************************************************)
(* The target of the request: URL port getter, parseInt and the default.   *)
(***************************************************************************)
\* the port a URL scheme implies
SchemeDefaultPort(scheme) == IF scheme = "https" THEN 443 ELSE 80

\* the decimal digits of n, as text
RECURSIVE ToDigits(_)
ToDigits(n) == IF n < 10 THEN << 48 + n >> ELSE ToDigits(n \div 10) \o << 48 + (n % 10) >>

\* url.port: "" when the URL names no port or names its scheme's default
UrlPort(url) ==
  IF url.port = -1 \/ url.port = SchemeDefaultPort(url.scheme)
  THEN << >>
  ELSE ToDigits(url.port)

\* parseInt of a text of decimal digits; NaN for ""
RECURSIVE ParseDigits(_, _)
ParseDigits(s, acc) ==
  IF s = << >> \/ Head(s) < 48 \/ Head(s) > 57 THEN acc
  ELSE ParseDigits(Tail(s), acc * 10 + (Head(s) - 48))
ParseInt(s) ==
  IF s = << >> \/ Head(s) < 48 \/ Head(s) > 57 THEN NaN ELSE ParseDigits(s, 0)

\* x || d for a number x: NaN and 0 are falsy
OrDefault(x, d) == IF x = NaN \/ x = 0 THEN d ELSE x

\* the worker v1 tunnels every request; v2 tunnels CONNECT only
Mode(w, method) ==
  IF w = "v1" \/ method = "CONNECT" THEN "tunnel" ELSE "transport"

\* parseInt(url.port) || 443 in tunnel mode, || 80 in transport mode
TargetPort(w, req) ==
  OrDefault(ParseInt(UrlPort(req.url)),
            IF Mode(w, req.method) = "tunnel" THEN 443 ELSE 80)

(***************************************************************************)
(* Error texts.                                                            *)
(***************************************************************************)
NegotiationMessage == "SOCKS5 authentication method negotiation failed."

AuthMessage(w) ==
  IF w = "v2" THEN "SOCKS5 proxy authentication failed."
  ELSE "SOCKS5 proxy authentication failed. Check proxy username/password."

\* variant: the text reports response[2], the reserved byte
CodeTextReservedByte(response) ==
  IF response = Undefined THEN "N/A" ELSE ToString(At(response, 2))
\* ${response ? response[1] : 'N/A'}
CodeText(response) ==
  IF response = Undefined THEN "N/A"
  ELSE IF At(response, 1) = -1 THEN "undefined"
  ELSE ToString(At(response, 1))

ConnectMessagePrefix(w) ==
  IF w = "v2" THEN "SOCKS5 connection failed. Error code: "
  ELSE "SOCKS5 connection to target failed. Proxy server replied with error code: "

ConnectMessage(w, response) == ConnectMessagePrefix(w) \o CodeText(response)

\* the text of an error the runtime raises on a failed socket write or read
IoErrorMessage == "Network connection lost."
\* proxy.host of an undefined proxy
NoProxyMessage == "Cannot read properties of undefined (reading 'host')"
\* request.body.pipeTo of a request without a body
NoBodyMessage == "Cannot read properties of null (reading 'pipeTo')"

(***************************************************************************)
(* Validation of the three replies.                                        *)
(***************************************************************************)
\* variant: the test of the greeting reply looks at the version byte only
GreetingAcceptedVersionOnly(response) ==
  response # Undefined /\ At(response, 0) = 5
\* !(!response || response[0] !== 0x05 || response[1] !== 0x02)
GreetingAccepted(response) ==
  response # Undefined /\ At(response, 0) = 5 /\ At(response, 1) = 2

\* variant: the test of the auth reply looks at the version byte only
AuthAcceptedVersionOnly(response) ==
  response # Undefined /\ At(response, 0) = 1
\* !(!response || response[0] !== 0x01 || response[1] !== 0x00)
AuthAccepted(response) ==
  response # Undefined /\ At(response, 0) = 1 /\ At(response, 1) = 0

\* variant: the test of the connect reply looks at the version byte only
ConnectAcceptedVersionOnly(response) ==
  response # Undefined /\ At(response, 0) = 5
\* !(!response || response[0] !== 0x05 || response[1] !== 0x00)
ConnectAccepted(response) ==
  response # Undefined /\ At(response, 0) = 5 /\ At(response, 1) = 0

(***************************************************************************)
(* Inputs: requests, configuration and what the upstream proxy may send.   *)
(***************************************************************************)
\* request.headers.get returns null for a missing header
NullHeader == << -2 >>
\* "Bearer x"
HeaderBearer == << 66, 101, 97, 114, 101, 114, 32, 120 >>
\* "Basic YTpi" (a:b)
HeaderAB == BasicPrefix \o << 89, 84, 112, 105 >>
\* "Basic YTp3cm9uZw==" (a:wrong)
HeaderAWrong == BasicPrefix \o << 89, 84, 112, 51, 99, 109, 57, 117, 90, 119, 61, 61 >>
\* "Basic YTpiOmM=" (a:b:c)
HeaderABC == BasicPrefix \o << 89, 84, 112, 105, 79, 109, 77, 61 >>
\* "Basic YQ==" (a)
HeaderA == BasicPrefix \o << 89, 81, 61, 61 >>
\* "Basic %%" (not base64)
HeaderGarbage == BasicPrefix \o << 37, 37 >>

Headers ==
  { NullHeader, HeaderBearer, HeaderAB, HeaderAWrong, HeaderABC, HeaderA, HeaderGarbage }

\* USERS_JSON: unparseable, or the list [{user:"a", pass:"b"}]
UserAB == [user |-> << 97 >>, pass |-> << 98 >>]
UsersJsons ==
  { [kind |-> "error", items |-> << >>],
    [kind |-> "array", items |-> << UserAB >>] }

\* the i-th configured proxy: user "\u00FCi" (not ASCII), pass "pi"
ProxyAt(i) ==
  [host |-> "proxy.test", port |-> 1080 + i,
   user |-> << 252, 48 + i >>,
   pass |-> << 112, 48 + i >>]

\* PROXIES_JSON: unparseable, "null", or a list of 0..MaxProxies proxies
ProxiesJsons ==
  { [kind |-> "error", items |-> << >>], [kind |-> "null", items |-> << >>] }
  \cup { [kind |-> "array", items |-> [i \in 1..n |-> ProxyAt(i)]] : n \in 0..MaxProxies }

\* "example.com"
ExampleCom == << 101, 120, 97, 109, 112, 108, 101, 46, 99, 111, 109 >>

\* request.url: scheme, host and the port it names (-1 for none)
Urls ==
  { [scheme |-> "https", hostname |-> ExampleCom, port |-> p] : p \in {-1, 0} }
  \cup { [scheme |-> "http", hostname |-> ExampleCom, port |-> p] : p \in {8080} }

Requests ==
  { [method |-> m, authHeader |-> h, url |-> u, hasBody |-> b] :
      m \in {"CONNECT", "GET"}, h \in Headers, u \in Urls, b \in BOOLEAN }

\* the proxy's answer to the k-th packet: the right one or a refusal
BoundAddress == << 0, 1, 10, 0, 0, 1, 4, 56 >>
ProxyReplies(k) ==
  IF k = 1 THEN { << 5, 2 >>, << 5, 0 >> }
  ELSE IF k = 2 THEN { << 1, 0 >>, << 1, 1 >> }
  ELSE { << 5, 0 >> \o BoundAddress, << 5, 5 >> \o BoundAddress }

\* the i-th application byte the target sends through the tunnel
AppByte(i) == 200 + i

(***************************************************************************)
(* State.                                                                  *)
(***************************************************************************)
VARIABLES
  worker,        \* "v1" (CONNECT-only worker) or "v2" (index.js)
  request,       \* the inbound request
  env,           \* USERS_JSON and PROXIES_JSON
  pc,            \* where the request's handler stands
  chosenProxy,   \* << >> while undefined, << proxy >> once picked
  picks,         \* how many times a proxy was drawn from the list
  target,        \* targetHost and targetPort given to connect
  socket,        \* "none", "open" or "closed"
  opened,        \* how many upstream connections were opened
  written,       \* the packets written to the socket by the handshake
  responses,     \* the value of `response` after each read
  wire,          \* bytes the proxy sent that no read has taken yet
  proxyReplies,  \* the replies the proxy has sent, one per packet answered
  proxyClosed,   \* the proxy has ended its side of the stream
  appSent,       \* application bytes the proxy has sent
  connectResult, \* "pending", "established" or "threw"
  error,         \* the message of the error caught by the handler
  httpResponse,  \* the response returned to the caller
  pumps,         \* the two pipeTo tasks of the relay
  toClient,      \* the bytes the relay has forwarded to the caller
  stream         \* the body of the 200 response: "none", "open", "complete",
                 \* "errored" or "cancelled"

vars ==
  << worker, request, env, pc, chosenProxy, picks, target, socket, opened,
     written, responses, wire, proxyReplies, proxyClosed, appSent,
     connectResult, error, httpResponse, pumps, toClient, stream >>

NoResponse == [status |-> 0, body |-> "", challenge |-> FALSE]
NoTarget == [host |-> << >>, port |-> 0]
IdlePumps == [down |-> "idle", up |-> "idle"]

Init ==
  /\ worker \in {"v1", "v2"}
  /\ request \in Requests
  /\ env \in { [USERS_JSON |-> u, PROXIES_JSON |-> p] :
                 u \in UsersJsons, p \in ProxiesJsons }
  /\ pc = "auth"
  /\ chosenProxy = << >>
  /\ picks = 0
  /\ target = NoTarget
  /\ socket = "none"
  /\ opened = 0
  /\ written = << >>
  /\ responses = << >>
  /\ wire = << >>
  /\ proxyReplies = << >>
  /\ proxyClosed = FALSE
  /\ appSent = 0
  /\ connectResult = "pending"
  /\ error = ""
  /\ httpResponse = NoResponse
  /\ pumps = IdlePumps
  /\ toClient = << >>
  /\ stream = "none"

(***************************************************************************)
(* The handler, step 1: the credential gate.                               *)
(***************************************************************************)
Respond(status, body, challenge) ==
  /\ httpResponse' = [status |-> status, body |-> body, challenge |-> challenge]
  /\ pc' = "done"

\* !authHeader || !authHeader.startsWith('Basic ')
HeaderRefused(authHeader) ==
  authHeader = NullHeader \/ authHeader = << >> \/ ~StartsWith(authHeader, BasicPrefix)

CheckCredentials ==
  /\ pc = "auth"
  /\ IF HeaderRefused(request.authHeader)
     THEN Respond(407, "Proxy Authentication Required", TRUE)
     ELSE IF ~CredentialsAccepted(request.authHeader, env.USERS_JSON)
     THEN Respond(407, "Invalid Credentials", FALSE)
     ELSE /\ pc' = "pick"
          /\ UNCHANGED httpResponse
  /\ UNCHANGED << worker, request, env, stream, chosenProxy, picks, target, socket, opened,
                  written, responses, wire, proxyReplies, proxyClosed, appSent,
                  connectResult, error, pumps, toClient >>

(***************************************************************************)
(* Step 2: the proxy pick.                                                 *)
(***************************************************************************)
\* the try block throws: JSON.parse fails, or the list is null (v1 tests it,
\* v2 reads null.length), or v1 finds it empty
ProxyConfigThrows(w, proxiesJson) ==
  \/ proxiesJson.kind = "error"
  \/ proxiesJson.kind = "null"
  \/ w = "v1" /\ proxiesJson.kind = "array" /\ Len(proxiesJson.items) = 0

\* proxies[Math.floor(Math.random() * proxies.length)]: any element of the
\* list, undefined when the list is empty
RandomPicks(items) ==
  IF Len(items) = 0 THEN { << >> } ELSE { << items[i] >> : i \in 1..Len(items) }

ChooseProxy ==
  /\ pc = "pick"
  /\ IF ProxyConfigThrows(worker, env.PROXIES_JSON)
     THEN /\ Respond(500, "Proxy configuration error", FALSE)
          /\ UNCHANGED << chosenProxy, picks >>
     ELSE /\ chosenProxy' \in RandomPicks(env.PROXIES_JSON.items)
          /\ picks' = picks + 1
          /\ pc' = "route"
          /\ UNCHANGED httpResponse
  /\ UNCHANGED << worker, request, env, stream, target, socket, opened,
                  written, responses, wire, proxyReplies, proxyClosed, appSent,
                  connectResult, error, pumps, toClient >>

(***************************************************************************)
(* connect: opening the socket.                                            *)
(***************************************************************************)
\* an error leaves connect (and reaches the handler's catch)
Throw(message) ==
  /\ connectResult' = "threw"
  /\ error' = message
  /\ pc' = "catch"

\* the call of connect with the target of the request; reading proxy.host of
\* an undefined proxy throws before any socket exists
OpenSocket ==
  /\ pc = "route"
  /\ target' = [host |-> request.url.hostname, port |-> TargetPort(worker, request)]
  /\ IF chosenProxy = << >>
     THEN /\ Throw(NoProxyMessage)
          /\ UNCHANGED << socket, opened >>
     ELSE /\ socket' = "open"
          /\ opened' = opened + 1
          /\ pc' = "greetW"
          /\ UNCHANGED << connectResult, error >>
  /\ UNCHANGED << worker, request, env, stream, chosenProxy, picks,
                  written, responses, wire, proxyReplies, proxyClosed, appSent,
                  httpResponse, pumps, toClient >>

(***************************************************************************)
(* connect: the three writes.                                              *)
(***************************************************************************)
\* await writer.write(packet): the packet is written, or the write rejects
\* and the error leaves connect as it is
Write(at, packet, next) ==
  /\ pc = at
  /\ \/ /\ written' = Append(written, packet)
        /\ pc' = next
        /\ UNCHANGED << connectResult, error >>
     \/ /\ Throw(IoErrorMessage)
        /\ UNCHANGED written
  /\ UNCHANGED << worker, request, env, stream, chosenProxy, picks, target, socket, opened,
                  responses, wire, proxyReplies, proxyClosed, appSent,
                  httpResponse, pumps, toClient >>

WriteGreeting == Write("greetW", GreetingPacket, "greetR")
WriteAuth == Write("authW", AuthPacket(chosenProxy[1]), "authR")
WriteConnect == Write("connW", ConnectPacket(target.host, target.port), "connR")

(***************************************************************************)
(* connect: the three reads, each followed by its validation.              *)
(***************************************************************************)
\* (await reader.read()).value: one chunk of the bytes in flight, of any
\* length the transport chooses, or undefined once the stream has ended
ReadValues ==
  { [value |-> SubSeq(wire, 1, n), rest |-> SubSeq(wire, n + 1, Len(wire))] :
      n \in 1..Len(wire) }
  \cup IF wire = << >> /\ proxyClosed
       THEN { [value |-> Undefined, rest |-> << >>] }
       ELSE { }

\* variant: a rejected reply is read again instead of ending connect
RejectReadsAgain(message) ==
  /\ pc' = pc
  /\ UNCHANGED << socket, connectResult, error >>
\* a rejected reply: socket.close(), then throw
Reject(message) ==
  /\ socket' = "closed"
  /\ Throw(message)

\* the read of one reply and the test that follows it; the read may reject
Read(at, accepted, message, next, result) ==
  /\ pc = at
  /\ \/ \E r \in ReadValues :
          /\ wire' = r.rest
          /\ responses' = Append(responses, r.value)
          /\ IF accepted
             THEN /\ pc' = next
                  /\ connectResult' = result
                  /\ UNCHANGED << socket, error >>
             ELSE Reject(message)
     \/ /\ Throw(IoErrorMessage)
        /\ UNCHANGED << wire, responses, socket >>
  /\ UNCHANGED << worker, request, env, stream, chosenProxy, picks, target, opened,
                  written, proxyReplies, proxyClosed, appSent,
                  httpResponse, pumps, toClient >>

\* `response` as the test of the current step sees it
Response == responses'[Len(responses')]

ReadGreeting ==
  Read("greetR", GreetingAccepted(Response), NegotiationMessage, "authW", "pending")

ReadAuth ==
  Read("authR", AuthAccepted(Response), AuthMessage(worker), "connW", "pending")

\* on success the locks are released and the socket is returned
ReadConnect ==
  Read("connR", ConnectAccepted(Response), ConnectMessage(worker, Response),
       "established", "established")

(***************************************************************************)
(* Step 3 of the handler: what is done with the established socket.        *)
(***************************************************************************)
\* tunnel mode: the two pipeTo calls and the 200 response; a request without
\* a body makes request.body.pipeTo throw after the first pump was started
StartRelay ==
  /\ pc = "established"
  /\ Mode(worker, request.method) = "tunnel"
  /\ IF request.hasBody
     THEN /\ pumps' = [down |-> "running", up |-> "running"]
          /\ Respond(200, "Connection established", FALSE)
          /\ stream' = "open"
          /\ UNCHANGED error
     ELSE /\ pumps' = [down |-> "running", up |-> "idle"]
          /\ error' = NoBodyMessage
          /\ pc' = "catch"
          /\ UNCHANGED << httpResponse, stream >>
  /\ UNCHANGED << worker, request, env, chosenProxy, picks, target, socket, opened,
                  written, responses, wire, proxyReplies, proxyClosed, appSent,
                  connectResult, toClient >>

\* transport mode: return fetch(request, { connect }) over the socket
StartFetch ==
  /\ pc = "established"
  /\ Mode(worker, request.method) = "transport"
  /\ pc' = "fetching"
  /\ UNCHANGED << worker, request, env, stream, chosenProxy, picks, target, socket, opened,
                  written, responses, wire, proxyReplies, proxyClosed, appSent,
                  connectResult, error, httpResponse, pumps, toClient >>

\* the substituted fetch resolves with the origin's response, or rejects;
\* the rejection is outside the try block and leaves the handler
FinishFetch ==
  /\ pc = "fetching"
  /\ \/ Respond(200, "origin response", FALSE)
     \/ /\ pc' = "rejected"
        /\ UNCHANGED httpResponse
  /\ UNCHANGED << worker, request, env, stream, chosenProxy, picks, target, socket, opened,
                  written, responses, wire, proxyReplies, proxyClosed, appSent,
                  connectResult, error, pumps, toClient >>

\* variant: the catch goes back to the proxy pick instead of answering
CatchRetries ==
  /\ pc = "catch"
  /\ pc' = "pick"
  /\ connectResult' = "pending"
  /\ UNCHANGED << worker, request, env, stream, chosenProxy, picks, target, socket, opened,
                  written, responses, wire, proxyReplies, proxyClosed, appSent,
                  error, httpResponse, pumps, toClient >>
\* catch (err): new Response(err.message, { status: 502 })
Catch ==
  /\ pc = "catch"
  /\ Respond(502, error, FALSE)
  /\ UNCHANGED << worker, request, env, stream, chosenProxy, picks, target, socket, opened,
                  written, responses, wire, proxyReplies, proxyClosed, appSent,
                  connectResult, error, pumps, toClient >>

(***************************************************************************)
(* The relay: socket.readable.pipeTo(writable) and                         *)
(* request.body.pipeTo(socket.writable).                                   *)
(***************************************************************************)
\* the downstream pump forwards one chunk, ends with the stream, or fails;
\* pipeTo closes `writable` at the end of the socket's stream and aborts it
\* on an error, which completes or fails the response body
PumpDown ==
  /\ pumps.down = "running"
  /\ \/ \E r \in ReadValues :
          /\ wire' = r.rest
          /\ IF r.value = Undefined
             THEN /\ pumps' = [pumps EXCEPT !.down = "ended"]
                  /\ stream' = IF stream = "open" THEN "complete" ELSE stream
                  /\ UNCHANGED toClient
             ELSE /\ toClient' = toClient \o r.value
                  /\ UNCHANGED << pumps, stream >>
     \/ /\ pumps' = [pumps EXCEPT !.down = "errored"]
        /\ stream' = IF stream = "open" THEN "errored" ELSE stream
        /\ UNCHANGED << wire, toClient >>
  /\ UNCHANGED << worker, request, env, pc, chosenProxy, picks, target, socket, opened,
                  written, responses, proxyReplies, proxyClosed, appSent,
                  connectResult, error, httpResponse >>

\* the caller cancels the response body (it disconnected or closed the
\* stream): the downstream pipeTo rejects, and its catch swallows the error
ClientCancel ==
  /\ pumps.down = "running"
  /\ stream = "open"
  /\ stream' = "cancelled"
  /\ pumps' = [pumps EXCEPT !.down = "cancelled"]
  /\ UNCHANGED << worker, request, env, pc, chosenProxy, picks, target, socket, opened,
                  written, responses, wire, proxyReplies, proxyClosed, appSent,
                  connectResult, error, httpResponse, toClient >>

\* the upstream pump ends with the request body, or fails
PumpUp ==
  /\ pumps.up = "running"
  /\ \E how \in {"ended", "errored"} : pumps' = [pumps EXCEPT !.up = how]
  /\ UNCHANGED << worker, request, env, stream, pc, chosenProxy, picks, target, socket, opened,
                  written, responses, wire, proxyReplies, proxyClosed, appSent,
                  connectResult, error, httpResponse, toClient >>

(***************************************************************************)
(* The upstream proxy.                                                     *)
(***************************************************************************)
\* the proxy answers the packet it has not answered yet
ProxyReply ==
  /\ socket = "open"
  /\ ~proxyClosed
  /\ Len(proxyReplies) < Len(written)
  /\ \E reply \in ProxyReplies(Len(proxyReplies) + 1) :
       /\ wire' = wire \o reply
       /\ proxyReplies' = Append(proxyReplies, reply)
  /\ UNCHANGED << worker, request, env, stream, pc, chosenProxy, picks, target, socket, opened,
                  written, responses, proxyClosed, appSent,
                  connectResult, error, httpResponse, pumps, toClient >>

\* the connect reply, as the proxy sends it on success
ConnectSuccessReply == << 5, 0 >> \o BoundAddress

\* after a successful connect reply the proxy relays the target's bytes
ProxyApp ==
  /\ socket = "open"
  /\ ~proxyClosed
  /\ Len(proxyReplies) = 3
  /\ proxyReplies[3] = ConnectSuccessReply
  /\ appSent < MaxApp
  /\ appSent' = appSent + 1
  /\ wire' = Append(wire, AppByte(appSent + 1))
  /\ UNCHANGED << worker, request, env, stream, pc, chosenProxy, picks, target, socket, opened,
                  written, responses, proxyReplies, proxyClosed,
                  connectResult, error, httpResponse, pumps, toClient >>

\* the proxy ends its side of the stream
ProxyClose ==
  /\ socket = "open"
  /\ ~proxyClosed
  /\ proxyClosed' = TRUE
  /\ UNCHANGED << worker, request, env, stream, pc, chosenProxy, picks, target, socket, opened,
                  written, responses, wire, proxyReplies, appSent,
                  connectResult, error, httpResponse, pumps, toClient >>

Next ==
  \/ CheckCredentials
  \/ ChooseProxy
  \/ OpenSocket
  \/ WriteGreeting
  \/ ReadGreeting
  \/ WriteAuth
  \/ ReadAuth
  \/ WriteConnect
  \/ ReadConnect
  \/ StartRelay
  \/ StartFetch
  \/ FinishFetch
  \/ Catch
  \/ PumpDown
  \/ ClientCancel
  \/ PumpUp
  \/ ProxyReply
  \/ ProxyApp
  \/ ProxyClose

Spec == Init /\ [][Next]_vars

(***************************************************************************)
(* The connect-request packet for every target: connect is entered with    *)
(* any host and port, and stands before its third write.                   *)
(***************************************************************************)
\* a host of n bytes, all 'a'
HostOfLength(n) == [i \in 1..n |-> 97]

PacketTargets ==
  { [host |-> ExampleCom, port |-> p] : p \in 0..65535 }
  \cup { [host |-> HostOfLength(n), port |-> p] : n \in {0, 1, 255}, p \in {0, 255, 256, 65535} }

InitPacket ==
  /\ worker = "v2"
  /\ request = [method |-> "CONNECT", authHeader |-> HeaderAB,
                url |-> [scheme |-> "https", hostname |-> ExampleCom, port |-> -1],
                hasBody |-> TRUE]
  /\ env = [USERS_JSON |-> [kind |-> "array", items |-> << UserAB >>],
            PROXIES_JSON |-> [kind |-> "array", items |-> << ProxyAt(1) >>]]
  /\ pc = "connW"
  /\ chosenProxy = << ProxyAt(1) >>
  /\ picks = 1
  /\ target \in PacketTargets
  /\ socket = "open"
  /\ opened = 1
  /\ written = << GreetingPacket, AuthPacket(ProxyAt(1)) >>
  /\ responses = << << 5, 2 >>, << 1, 0 >> >>
  /\ wire = << >>
  /\ proxyReplies = << << 5, 2 >>, << 1, 0 >> >>
  /\ proxyClosed = FALSE
  /\ appSent = 0
  /\ connectResult = "pending"
  /\ error = ""
  /\ httpResponse = NoResponse
  /\ pumps = IdlePumps
  /\ toClient = << >>
  /\ stream = "none"

NextPacket == WriteConnect

SpecPacket == InitPacket /\ [][NextPacket]_vars

(***************************************************************************)
(* Properties.                                                             *)
(***************************************************************************)
\* the value read is a reply that starts with the two bytes a, b
StartsWithBytes(response, a, b) ==
  /\ response # Undefined
  /\ Len(response) >= 2
  /\ response[1] = a
  /\ response[2] = b

\* C1: the handshake is strictly sequential.  No reply is read before its
\* packet was written; the auth packet is written only after the greeting
\* reply was accepted as 05 02, the connect request only after the auth
\* reply was accepted as 01 00, and the socket is returned only after the
\* connect reply was accepted as 05 00.
C1_HandshakeInOrder ==
  /\ Len(responses) <= Len(written)
  /\ Len(written) <= Len(responses) + 1
  /\ Len(written) >= 2 => StartsWithBytes(responses[1], 5, 2)
  /\ Len(written) >= 3 => StartsWithBytes(responses[2], 1, 0)
  /\ connectResult = "established" =>
       /\ Len(written) = 3
       /\ Len(responses) = 3
       /\ StartsWithBytes(responses[3], 5, 0)
  /\ pc \in {"greetW", "greetR"} => Len(written) <= 1
  /\ pc \in {"authW", "authR"} => Len(written) \in {1, 2} /\ Len(responses) >= 1
  /\ pc \in {"connW", "connR"} => Len(written) \in {2, 3} /\ Len(responses) >= 2

C1_Witness ==
  /\ connectResult = "established"
  /\ Len(written) = 3
  /\ Len(responses) = 3

\* the reply a correct SOCKS5 server gives to the k-th packet
CorrectReply(k) ==
  IF k = 1 THEN << 5, 2 >> ELSE IF k = 2 THEN << 1, 0 >> ELSE << 5, 0 >> \o BoundAddress

\* the proxy has answered every packet written so far, each time correctly
ProxyRepliedCorrectly ==
  /\ Len(proxyReplies) = Len(written)
  /\ \A k \in 1..Len(proxyReplies) : proxyReplies[k] = CorrectReply(k)

\* C2: when the proxy replies correctly to each step and no write or read
\* fails, connect returns the established stream and has written exactly
\* the greeting, auth and connect-request packets, however the transport
\* cuts the reply bytes into reads.
C2_CorrectProxyEstablishes ==
  ( /\ connectResult # "pending" \/ pc \in {"catch", "done"}
    /\ Len(written) >= 1
    /\ ProxyRepliedCorrectly
    /\ error # IoErrorMessage )
  => /\ connectResult = "established"
     /\ written = << GreetingPacket, AuthPacket(chosenProxy[1]),
                     ConnectPacket(target.host, target.port) >>

\* C3: connect never ends in an error with the socket still open.
C3_ClosedBeforeError ==
  connectResult = "threw" => socket # "open"

\* C4: a greeting reply other than 05 02 ends connect with the negotiation
\* error after the greeting packet alone was written; an auth reply other
\* than 01 00 ends it with the authentication error after two packets.
C4_RejectionStopsWrites ==
  /\ ( Len(responses) >= 1 /\ ~StartsWithBytes(responses[1], 5, 2) ) =>
       /\ connectResult = "threw"
       /\ error = "SOCKS5 authentication method negotiation failed."
       /\ Len(written) = 1
       /\ socket = "closed"
  /\ ( Len(responses) >= 2 /\ ~StartsWithBytes(responses[2], 1, 0) ) =>
       /\ connectResult = "threw"
       /\ error \in { "SOCKS5 proxy authentication failed.",
                      "SOCKS5 proxy authentication failed. Check proxy username/password." }
       /\ Len(written) = 2
       /\ socket = "closed"

C4_Witness ==
  /\ pc = "done"
  /\ Len(responses) = 2
  /\ responses[2] = << 1, 1 >>
  /\ Len(written) = 2

C6_ConnectPacketLayout ==
  Len(written) = 3 =>
    LET packet == written[3]
        n      == Len(target.host)
    IN  /\ Len(packet) = n + 7
        /\ SubSeq(packet, 1, 5) = << 5, 1, 0, 3, n >>
        /\ SubSeq(packet, 6, n + 5) = target.host
        /\ packet[n + 6] \in 0..255
        /\ packet[n + 7] \in 0..255
        /\ packet[n + 6] * 256 + packet[n + 7] = target.port
        /\ ( target.host = ExampleCom /\ target.port = 443 ) =>
             packet = << 5, 1, 0, 3, 11, 101, 120, 97, 109, 112, 108, 101, 46,
                         99, 111, 109, 1, 187 >>

C6_Witness ==
  /\ Len(written) = 3
  /\ target = [host |-> ExampleCom, port |-> 443]
  /\ written[3] = << 5, 1, 0, 3, 11, 101, 120, 97, 109, 112, 108, 101, 46,
                     99, 111, 109, 1, 187 >>

\* the requests the gate must refuse: no header, a header that is not Basic,
\* a value that is not base64, a value without a password, the pair a:wrong
\* (the store holds a:b alone), or any header when the store cannot be read
C7_MustBeRefused ==
  \/ request.authHeader \in { NullHeader, HeaderBearer, HeaderGarbage, HeaderA, HeaderAWrong }
  \/ env.USERS_JSON.kind # "array"

BasicUser(text) ==
  LET k == FirstColon(text, 1)
  IN  IF k = 0 THEN text ELSE SubSeq(text, 1, k - 1)
BasicPass(text) ==
  LET k == FirstColon(text, 1)
  IN  IF k = 0 THEN Undefined ELSE SubSeq(text, k + 1, Len(text))

\* C8: a request gets past the gate only if the store holds the pair its
\* Basic value stands for, the password being the whole remainder after the
\* first ':'.
C8_OnlyStoredPairsPass ==
  pc \notin {"auth", "done"} \/ picks > 0 =>
    LET text == Atob(Substring(request.authHeader, 6)).text
    IN  /\ env.USERS_JSON.kind = "array"
        /\ \E i \in 1..Len(env.USERS_JSON.items) :
             /\ env.USERS_JSON.items[i].user = BasicUser(text)
             /\ env.USERS_JSON.items[i].pass = BasicPass(text)

\* C9: every 407 response carries the Proxy-Authenticate challenge.
C9_ChallengeOnEvery407 ==
  httpResponse.status = 407 => httpResponse.challenge

\* C10: an authenticated request whose proxy list is empty or cannot be
\* parsed is answered 500, never reaches connect and opens no connection.
C10_BadProxyListIs500 ==
  ( /\ pc # "auth"
    /\ httpResponse.status # 407
    /\ \/ env.PROXIES_JSON.kind # "array"
       \/ Len(env.PROXIES_JSON.items) = 0 )
  => /\ opened = 0
     /\ connectResult = "pending"
     /\ pc \notin {"catch", "established", "fetching", "rejected"}
     /\ pc = "done" => httpResponse.status = 500

\* C11: one request picks at most one proxy and opens at most one upstream
\* connection; a failed handshake ends the request with an error response,
\* and no second pick, connection or handshake step follows it.
C11_OnePickOneConnection ==
  /\ picks \in {0, 1}
  /\ opened \in {0, 1}
  /\ opened <= picks
  /\ Len(written) <= 3
  /\ Len(responses) <= 3
  /\ connectResult = "threw" =>
       /\ pc \in {"catch", "done"}
       /\ picks = 1
       /\ pc = "done" => httpResponse.status = 502

C11_Witness ==
  /\ pc = "done"
  /\ connectResult = "threw"
  /\ opened = 1
  /\ Len(responses) >= 1
  /\ httpResponse.status = 502

(***************************************************************************)
(* The target port for every URL: the handler stands before its call of    *)
(* connect, with a proxy picked.                                           *)
(***************************************************************************)
TargetUrls ==
  { [scheme |-> sch, hostname |-> ExampleCom, port |-> p] :
      sch \in {"http", "https"}, p \in {-1, 0, 1, 80, 443, 8080, 65535} }

InitTarget ==
  /\ worker \in {"v1", "v2"}
  /\ request \in { [method |-> m, authHeader |-> HeaderAB, url |-> u, hasBody |-> TRUE] :
                     m \in {"CONNECT", "GET"}, u \in TargetUrls }
  /\ env = [USERS_JSON |-> [kind |-> "array", items |-> << UserAB >>],
            PROXIES_JSON |-> [kind |-> "array", items |-> << ProxyAt(1) >>]]
  /\ pc = "route"
  /\ chosenProxy = << ProxyAt(1) >>
  /\ picks = 1
  /\ target = NoTarget
  /\ socket = "none"
  /\ opened = 0
  /\ written = << >>
  /\ responses = << >>
  /\ wire = << >>
  /\ proxyReplies = << >>
  /\ proxyClosed = FALSE
  /\ appSent = 0
  /\ connectResult = "pending"
  /\ error = ""
  /\ httpResponse = NoResponse
  /\ pumps = IdlePumps
  /\ toClient = << >>
  /\ stream = "none"

NextTarget == OpenSocket

SpecTarget == InitTarget /\ [][NextTarget]_vars

\* C12: the port given to connect is the port the URL names whenever it
\* names one (0 and the scheme's own default included), and otherwise 443
\* in tunnel mode and 80 in transport mode.
C12_NamedPortIsUsed ==
  pc # "route" =>
    target.port =
      IF request.url.port # -1 THEN request.url.port
      ELSE IF worker = "v1" \/ request.method = "CONNECT" THEN 443 ELSE 80

\* the application bytes the proxy has sent after its connect reply
AppBytesSent == [i \in 1..appSent |-> AppByte(i)]

\* C14: once connect has returned the socket, the bytes the relay has
\* forwarded followed by the bytes still in flight are exactly the bytes the
\* proxy sent after its connect reply: the handshake took the three replies
\* and nothing else.
C14_HandshakeTakesOnlyReplies ==
  connectResult = "established" => toClient \o wire = AppBytesSent

\* C16: when a 407, 500 or 502 response is returned, no upstream connection
\* of the request is open.
C16_NoOpenSocketOnError ==
  ( pc = "done" /\ httpResponse.status \in {407, 500, 502} ) => socket # "open"

(***************************************************************************)
(* The length prefixes for short and long fields: connect stands before    *)
(* its authentication write, for credentials and hosts of up to 300 bytes. *)
(***************************************************************************)
LongTexts ==
  { HostOfLength(n) : n \in {0, 1, 255, 256, 300} } \cup { [i \in 1..128 |-> 252] }

InitLengths ==
  /\ worker = "v2"
  /\ request = [method |-> "CONNECT", authHeader |-> HeaderAB,
                url |-> [scheme |-> "https", hostname |-> ExampleCom, port |-> -1],
                hasBody |-> TRUE]
  /\ \E u \in LongTexts, p \in LongTexts :
       /\ chosenProxy = << [ProxyAt(1) EXCEPT !.user = u, !.pass = p] >>
       /\ env = [USERS_JSON |-> [kind |-> "array", items |-> << UserAB >>],
                 PROXIES_JSON |-> [kind |-> "array", items |-> chosenProxy]]
  /\ pc = "authW"
  /\ picks = 1
  /\ \E h \in LongTexts : target = [host |-> h, port |-> 443]
  /\ socket = "open"
  /\ opened = 1
  /\ written = << GreetingPacket >>
  /\ responses = << << 5, 2 >> >>
  /\ wire = << >>
  /\ proxyReplies = << << 5, 2 >> >>
  /\ proxyClosed = FALSE
  /\ appSent = 0
  /\ connectResult = "pending"
  /\ error = ""
  /\ httpResponse = NoResponse
  /\ pumps = IdlePumps
  /\ toClient = << >>
  /\ stream = "none"

NextLengths ==
  \/ WriteAuth
  \/ ProxyReply
  \/ ReadAuth
  \/ WriteConnect

SpecLengths == InitLengths /\ [][NextLengths]_vars

\* C15: in every packet written, each length prefix (userLen, passLen,
\* hostLen) is a value in 0..255 equal to the number of bytes of the field
\* written after it, for fields longer than 255 bytes too.
C15_LengthPrefixMatchesField ==
  LET userBytes == Encode(chosenProxy[1].user)
      passBytes == Encode(chosenProxy[1].pass)
      hostBytes == Encode(target.host)
  IN  /\ Len(written) >= 2 =>
           /\ written[2][2] \in 0..255
           /\ written[2][2] = Len(userBytes)
           /\ written[2][3 + Len(userBytes)] \in 0..255
           /\ written[2][3 + Len(userBytes)] = Len(passBytes)
      /\ Len(written) >= 3 =>
           /\ written[3][5] \in 0..255
           /\ written[3][5] = Len(hostBytes)

\* the relay of a tunnel is over: the caller cancelled the response body, or
\* both pumps reached the end of their stream or an error
RelayEnded ==
  \/ pumps.down = "cancelled"
  \/ pumps.down \in {"ended", "errored"} /\ pumps.up \in {"ended", "errored"}

\* the upstream connection is shut: socket.close() was called, or each of
\* its two streams was closed, cancelled or aborted by the pipeTo that held it
TunnelShut ==
  \/ socket = "closed"
  \/ pumps.down \in {"ended", "errored", "cancelled"} /\ pumps.up \in {"ended", "errored"}

\* C17: in tunnel mode, once the relay has ended and the handler has
\* returned (no step of the handler is left to run), the upstream connection
\* is shut and neither pump is running.
C17_ShutAfterRelay ==
  ( pc = "done" /\ RelayEnded ) =>
    ( TunnelShut /\ pumps.down # "running" /\ pumps.up # "running" )

\* C18: in tunnel mode the response body is complete only once both pumps
\* have ended, each by the end of its stream or by an error.
C18_CompleteAfterBothPumps ==
  stream = "complete" =>
    ( pumps.down \in {"ended", "errored"} /\ pumps.up \in {"ended", "errored"} )

(***************************************************************************)
(* connect on its own: the handler stands before its call of connect with  *)
(* a proxy picked; writes resolve, a read resolves once bytes or the end   *)
(* of the stream are there, and the proxy answers each packet or closes.   *)
(***************************************************************************)
InitConnect ==
  /\ worker \in {"v1", "v2"}
  /\ request \in { [method |-> m, authHeader |-> HeaderAB, url |-> u, hasBody |-> TRUE] :
                     m \in {"CONNECT", "GET"}, u \in Urls }
  /\ env = [USERS_JSON |-> [kind |-> "array", items |-> << UserAB >>],
            PROXIES_JSON |-> [kind |-> "array", items |-> << ProxyAt(1) >>]]
  /\ pc = "route"
  /\ chosenProxy = << ProxyAt(1) >>
  /\ picks = 1
  /\ target = NoTarget
  /\ socket = "none"
  /\ opened = 0
  /\ written = << >>
  /\ responses = << >>
  /\ wire = << >>
  /\ proxyReplies = << >>
  /\ proxyClosed = FALSE
  /\ appSent = 0
  /\ connectResult = "pending"
  /\ error = ""
  /\ httpResponse = NoResponse
  /\ pumps = IdlePumps
  /\ toClient = << >>
  /\ stream = "none"

NextConnect ==
  \/ OpenSocket
  \/ WriteGreeting
  \/ ReadGreeting
  \/ WriteAuth
  \/ ReadAuth
  \/ WriteConnect
  \/ ReadConnect
  \/ ProxyReply
  \/ ProxyApp
  \/ ProxyClose

\* a read that resolves with a value or with the end of the stream
ReadResolves ==
  /\ ReadGreeting \/ ReadAuth \/ ReadConnect
  /\ responses' # responses

FairConnect ==
  /\ WF_vars(OpenSocket)
  /\ WF_vars(WriteGreeting \/ WriteAuth \/ WriteConnect)
  /\ WF_vars(ReadResolves)
  /\ WF_vars(ProxyReply \/ ProxyClose)

SpecConnect == InitConnect /\ [][NextConnect]_vars /\ FairConnect

\* C19: once the connection is open and the proxy answers each packet or
\* closes, connect terminates -- it returns the socket or throws -- after at
\* most three writes and three reads.
C19_ConnectTerminates ==
  /\ [](Len(written) <= 3 /\ Len(responses) <= 3)
  /\ <>(connectResult # "pending")

C19_Witness ==
  /\ connectResult = "established"
  /\ Len(written) = 3
  /\ Len(responses) = 3

(***************************************************************************)
(* socks5Connect of the CONNECT-only worker, as a function of what its     *)
(* awaits resolve with: step 1, 3, 5 are the writes, step 2, 4, 6 the      *)
(* reads with their tests.                                                 *)
(***************************************************************************)
Socks5ConnectStart ==
  [step |-> 1, written |-> << >>, socket |-> "open", outcome |-> "pending", message |-> ""]

Socks5ConnectAuthPacket(proxy) ==
  LET userBytes == Encode(proxy.user)
      passBytes == Encode(proxy.pass)
  IN  Uint8Array(<< 1, Len(userBytes) >> \o userBytes \o << Len(passBytes) >> \o passBytes)

Socks5ConnectConnectPacket(targetHost, targetPort) ==
  LET hostBytes == Encode(targetHost)
      portBytes == Uint8Array(<< (targetPort \div 256) % 256, targetPort % 256 >>)
  IN  Uint8Array(<< 5, 1, 0, 3, Len(hostBytes) >> \o hostBytes \o portBytes)

\* socket.close(); throw new Error(message)
Socks5ConnectRejects(s, message) ==
  [s EXCEPT !.socket = "closed", !.outcome = "threw", !.message = message]

Socks5ConnectStep(s, e, proxy, targetHost, targetPort) ==
  IF s.outcome # "pending" THEN s
  ELSE IF e.kind = "rejected"
  THEN [s EXCEPT !.outcome = "threw", !.message = IoErrorMessage]
  ELSE CASE s.step = 1 ->
              [s EXCEPT !.written = Append(@, Uint8Array(<< 5, 1, 2 >>)), !.step = 2]
         [] s.step = 2 ->
              IF e.value = Undefined \/ At(e.value, 0) # 5 \/ At(e.value, 1) # 2
              THEN Socks5ConnectRejects(s, "SOCKS5 authentication method negotiation failed.")
              ELSE [s EXCEPT !.step = 3]
         [] s.step = 3 ->
              [s EXCEPT !.written = Append(@, Socks5ConnectAuthPacket(proxy)), !.step = 4]
         [] s.step = 4 ->
              IF e.value = Undefined \/ At(e.value, 0) # 1 \/ At(e.value, 1) # 0
              THEN Socks5ConnectRejects(s, AuthMessage("v1"))
              ELSE [s EXCEPT !.step = 5]
         [] s.step = 5 ->
              [s EXCEPT !.written = Append(@, Socks5ConnectConnectPacket(targetHost, targetPort)),
                        !.step = 6]
         [] s.step = 6 ->
              IF e.value = Undefined \/ At(e.value, 0) # 5 \/ At(e.value, 1) # 0
              THEN Socks5ConnectRejects(s, ConnectMessage("v1", e.value))
              ELSE [s EXCEPT !.step = 7, !.outcome = "established"]
         [] OTHER -> s

RECURSIVE Socks5ConnectRun(_, _, _, _)
Socks5ConnectRun(events, proxy, targetHost, targetPort) ==
  IF events = << >> THEN Socks5ConnectStart
  ELSE Socks5ConnectStep(
         Socks5ConnectRun(SubSeq(events, 1, Len(events) - 1), proxy, targetHost, targetPort),
         events[Len(events)], proxy, targetHost, targetPort)

\* what the awaits of connect have resolved with so far: write and read
\* alternate, and a rejected write or read is the last event
AwaitsResolved ==
  [k \in 1..(Len(written) + Len(responses)) |->
     IF k % 2 = 1 THEN [kind |-> "resolved", value |-> << >>]
     ELSE [kind |-> "resolved", value |-> responses[k \div 2]]]
  \o IF connectResult = "threw" /\ error = IoErrorMessage
     THEN << [kind |-> "rejected", value |-> << >>] >>
     ELSE << >>

\* the step connect stands at or stopped at
ConnectStep ==
  CASE pc = "greetW" -> 1
    [] pc = "greetR" -> 2
    [] pc = "authW" -> 3
    [] pc = "authR" -> 4
    [] pc = "connW" -> 5
    [] pc = "connR" -> 6
    [] connectResult = "established" -> 7
    [] error = IoErrorMessage -> Len(written) + Len(responses) + 1
    [] OTHER -> Len(written) + Len(responses)

\* two error messages that differ in wording only
SameButWording(v1Message, v2Message) ==
  \/ v1Message = v2Message
  \/ v1Message = AuthMessage("v1") /\ v2Message = AuthMessage("v2")
  \/ /\ Len(responses) = 3
     /\ v1Message = ConnectMessage("v1", responses[3])
     /\ v2Message = ConnectMessage("v2", responses[3])

\* C20: on the same proxy, target and resolved awaits, socks5.connect of
\* index.js and socks5Connect of the CONNECT-only worker have written the
\* same bytes, stand or stopped at the same step, leave the socket in the
\* same state and have the same outcome, with error messages that differ in
\* wording only.
C20_SameHandshake ==
  ( worker = "v2" /\ opened = 1 ) =>
    LET v1 == Socks5ConnectRun(AwaitsResolved, chosenProxy[1], target.host, target.port)
    IN  /\ v1.written = written
        /\ v1.step = ConnectStep
        /\ v1.socket = socket
        /\ v1.outcome = connectResult
        /\ connectResult = "threw" => SameButWording(v1.message, error)

C20_Witness ==
  /\ worker = "v2"
  /\ connectResult = "threw"
  /\ socket = "closed"
  /\ Len(written) = 3
  /\ error = ConnectMessage("v2", responses[3])

====
